---- MODULE Spec2Model ----
(***************************************************************************)
(* Model of backend/internal/data/models.go: the users and tokens tables   *)
(* reached through the package-level handle db, and the Token methods      *)
(* GenerateToken, GetByToken, GetUserByToken, AuthenticationToken,         *)
(* InsertToken and DeleteToken.                                            *)
(*                                                                         *)
(* Strings are sequences of one-character strings, so that strings.Split   *)
(* and len() are computed and not assumed.  Time is a whole number of      *)
(* clock ticks; the zero time.Time is tick 0 and the clock starts at 1.    *)
(***************************************************************************)
EXTENDS Integers, Sequences, FiniteSets, TLC

\* ------------------------------------------------------------------ bounds
MaxTime == 3
NumProcs == 2
MaxTTL == 2
MaxUserID == 3

\* --------------------------------------------------------- program constants
TokenLen == 26
RandomLen == 16
ZeroTime == 0
dbTimeout == 3
retryCount == 3
RetryDelay == 2
BcryptCost == 12
MaxPasswordLen == 72

VARIABLES users, nextUserID, tokens, nextTokenID, now, pending, last

vars == <<users, nextUserID, tokens, nextTokenID, now, pending, last>>

Procs == 1..NumProcs
Times == 1..MaxTime
TTLs == 0..MaxTTL

\* ------------------------------------------------------------------ strings
Bearer == <<"B", "e", "a", "r", "e", "r">>
Space == " "
Nil == "nil"

\* strings.Split(s, sep) for a one-character separator: the parts between
\* separators, empty parts included; Split("", sep) is one empty part.
RECURSIVE SplitFrom(_, _, _, _)
SplitFrom(s, sep, i, cur) ==
    IF i > Len(s) THEN <<cur>>
    ELSE IF s[i] = sep THEN <<cur>> \o SplitFrom(s, sep, i + 1, <<>>)
    ELSE SplitFrom(s, sep, i + 1, Append(cur, s[i]))

Split(s, sep) == SplitFrom(s, sep, 1, <<>>)

\* base32.StdEncoding alphabet (RFC 4648)
StdAlphabet ==
    <<"A", "B", "C", "D", "E", "F", "G", "H", "I", "J", "K", "L", "M",
      "N", "O", "P", "Q", "R", "S", "T", "U", "V", "W", "X", "Y", "Z",
      "2", "3", "4", "5", "6", "7">>

Pow2(n) == CASE n = 0 -> 1 [] n = 1 -> 2 [] n = 2 -> 4 [] n = 3 -> 8
             [] n = 4 -> 16 [] n = 5 -> 32 [] n = 6 -> 64 [] n = 7 -> 128

\* bit k (0 = most significant bit of the first byte) of a byte string,
\* 0 past its end (the zero fill of the last 5-bit group)
BitAt(bytes, k) ==
    IF k >= 8 * Len(bytes) THEN 0
    ELSE (bytes[(k \div 8) + 1] \div Pow2(7 - (k % 8))) % 2

Quantum(bytes, g) ==
    16 * BitAt(bytes, 5 * g) + 8 * BitAt(bytes, 5 * g + 1)
    + 4 * BitAt(bytes, 5 * g + 2) + 2 * BitAt(bytes, 5 * g + 3)
    + BitAt(bytes, 5 * g + 4)

\* base32.StdEncoding.WithPadding(base32.NoPadding).EncodeToString
EncodeToString(bytes) ==
    [g \in 1..((8 * Len(bytes) + 4) \div 5) |-> StdAlphabet[Quantum(bytes, g - 1) + 1]]

\* sha256.Sum256: a digest is one value per input string
Sum256(s) == <<"sha256", s>>

\* ------------------------------------------------------------------- inputs
\* what crypto/rand can deliver into the 16-byte buffer
Zeros == [i \in 1..RandomLen |-> 0]
Ones == [i \in 1..RandomLen |-> 255]
Mixed == [i \in 1..RandomLen |-> (16 * i + 1) % 256]
RandomBytes == {Zeros, Ones, Mixed}

\* EncodeToString of each of them, computed once
Encoded == [b \in RandomBytes |-> EncodeToString(b)]

TokA == Encoded[Zeros]
TokB == Encoded[Ones]
TokC == Encoded[Mixed]
TokenValues == {TokA, TokB, TokC}

\* values of the Authorization header
Headers ==
    { <<>>,
      <<"T", "o", "k", "e", "n", " ", "a", "b", "c">>,
      Bearer \o <<Space, "a", "b">>,
      Bearer,
      Bearer \o <<Space>>,
      TokA,
      <<"b", "e", "a", "r", "e", "r", Space>> \o TokA,
      Bearer \o <<Space, Space>> \o TokA,
      Bearer \o <<Space>> \o TokA \o <<Space, "x">> }
    \cup { Bearer \o <<Space>> \o tk : tk \in TokenValues }

UserIDs == {1, 2, 3}
Emails == {"", "a@x"}

\* ------------------------------------------------------------ the datastore
\* columns of the tokens table
TokenColumns ==
    {"id", "user_id", "email", "token", "token_hash",
     "created_at", "updated_at", "expiry"}

\* passwords callers type; Long72 is the longest bcrypt takes, Long73 = Long72 + "x"
Pw == <<"p", "w">>
Long72 == [i \in 1..MaxPasswordLen |-> "a"]
Long73 == Long72 \o <<"x">>
Passwords == {Pw, Long72, Long73}
Candidates == {Pw, Pw \o <<"x">>}

\* what the password column can hold: the text of a bcrypt hash, which
\* carries its cost and stands for the key that was hashed (the salt is left
\* out), or any other text
HashText(cost, key) == [kind |-> "bcrypt", cost |-> cost, key |-> key]
PlainText(s) == [kind |-> "text", cost |-> 0, key |-> s]

ErrPasswordTooLong == "bcrypt: password length exceeds 72 bytes"
ErrMismatchedHashAndPassword == "bcrypt: hashedPassword is not the hash of the given password"
ErrHashTooShort == "bcrypt: hashedSecret too short to be a bcrypted password"

\* the key bcrypt derives from a password: its first 72 bytes
BcryptKey(password) ==
    IF Len(password) > MaxPasswordLen THEN SubSeq(password, 1, MaxPasswordLen)
    ELSE password

\* bcrypt.GenerateFromPassword(password, cost)
GenerateFromPassword(password, cost) ==
    IF Len(password) > MaxPasswordLen
    THEN [err |-> ErrPasswordTooLong, hash |-> PlainText(<<>>)]
    ELSE [err |-> Nil, hash |-> HashText(cost, BcryptKey(password))]

\* bcrypt.CompareHashAndPassword(hashedPassword, password)
CompareHashAndPassword(hashedPassword, password) ==
    IF hashedPassword.kind # "bcrypt" THEN ErrHashTooShort
    ELSE IF hashedPassword.key = BcryptKey(password) THEN Nil
    ELSE ErrMismatchedHashAndPassword

UserRow(id, email) ==
    [id |-> id, email |-> email, first_name |-> "F", last_name |-> "L",
     password |-> HashText(BcryptCost, Pw), created_at |-> 1, updated_at |-> 1]

TokenRow(id, userID, email, tk, expiry) ==
    [id |-> id, user_id |-> userID, email |-> email, token |-> tk,
     token_hash |-> Sum256(tk), created_at |-> 1, updated_at |-> 1,
     expiry |-> expiry]

SeedUsers == {UserRow(1, "a@x"), UserRow(2, "b@x")}

SeedA == TokenRow(1, 1, "a@x", TokA, 1)
SeedB == TokenRow(2, 2, "b@x", TokB, 2)

\* contents of the tokens table when New(dbPool) is given the pool
SeedTables == {{}, {SeedA}, {SeedB}, {SeedA, SeedB}}

\* errors of the driver
ErrNoRows == "sql: no rows in result set"
ErrUndefinedColumn == "pq: column does not exist"
ErrDriver == "driver: bad connection or context deadline exceeded"
ErrForeignKey == "pq: violates foreign key constraint"

\* SELECT ... FROM tokens WHERE col = val, QueryRowContext + Scan: the
\* outcomes the statement can have (one row of the matching ones)
SelectTokenWhere(tbl, col, val, fault) ==
    IF fault THEN {[err |-> ErrDriver, row |-> Nil]}
    ELSE IF col \notin TokenColumns THEN {[err |-> ErrUndefinedColumn, row |-> Nil]}
    ELSE IF {r \in tbl : r[col] = val} = {} THEN {[err |-> ErrNoRows, row |-> Nil]}
    ELSE {[err |-> Nil, row |-> r] : r \in {x \in tbl : x[col] = val}}

\* DELETE FROM tokens WHERE col = val, ExecContext
DeleteTokenWhere(tbl, col, val, fault) ==
    IF fault THEN [err |-> ErrDriver, tbl |-> tbl]
    ELSE IF col \notin TokenColumns THEN [err |-> ErrUndefinedColumn, tbl |-> tbl]
    ELSE [err |-> Nil, tbl |-> {r \in tbl : r[col] # val}]

\* SELECT ... FROM users WHERE id = val
SelectUserWhereID(utbl, val, fault) ==
    IF fault THEN {[err |-> ErrDriver, row |-> Nil]}
    ELSE IF {u \in utbl : u.id = val} = {} THEN {[err |-> ErrNoRows, row |-> Nil]}
    ELSE {[err |-> Nil, row |-> u] : u \in {x \in utbl : x.id = val}}

\* INSERT INTO tokens (...) VALUES (...): the serial id is consumed even
\* when the statement fails on the foreign key
InsertTokenRow(tbl, utbl, id, t, at, fault) ==
    IF fault THEN [err |-> ErrDriver, tbl |-> tbl, nextID |-> id]
    ELSE IF {u \in utbl : u.id = t.user_id} = {}
    THEN [err |-> ErrForeignKey, tbl |-> tbl, nextID |-> id + 1]
    ELSE [err |-> Nil, nextID |-> id + 1,
          tbl |-> tbl \cup {[id |-> id, user_id |-> t.user_id, email |-> t.email,
                             token |-> t.token, token_hash |-> t.token_hash,
                             created_at |-> at, updated_at |-> at,
                             expiry |-> t.expiry]}]

\* a string parameter bound to the integer column users.id: the datastore
\* reads it as a decimal number, or refuses it
Digits == <<"0", "1", "2", "3", "4", "5", "6", "7", "8", "9">>
IsInteger(s) ==
    /\ s # <<>>
    /\ \A i \in 1..Len(s) : \E k \in 1..Len(Digits) : s[i] = Digits[k]
DigitOf(c) == (CHOOSE k \in 1..Len(Digits) : Digits[k] = c) - 1
RECURSIVE IntValue(_)
IntValue(s) ==
    IF s = <<>> THEN 0
    ELSE 10 * IntValue(SubSeq(s, 1, Len(s) - 1)) + DigitOf(s[Len(s)])

\* a decimal string without its leading zeros
RECURSIVE StripZeros(_)
StripZeros(s) ==
    IF Len(s) > 1 /\ s[1] = "0" THEN StripZeros(SubSeq(s, 2, Len(s))) ELSE s

\* the largest value of the column's type, integer
MaxInt32 == 2147483647

\* whether a decimal string fits the column's type
InRange(s) ==
    LET d == StripZeros(s) IN
    \/ Len(d) <= 9
    \/ /\ Len(d) = 10
       /\ \/ IntValue(SubSeq(d, 1, 9)) < MaxInt32 \div 10
          \/ /\ IntValue(SubSeq(d, 1, 9)) = MaxInt32 \div 10
             /\ DigitOf(d[10]) <= MaxInt32 % 10

ErrInvalidInteger == "pq: invalid input syntax for type integer"
ErrOutOfRange == "pq: value is out of range for type integer"

\* SELECT ... FROM users WHERE id = $1 with $1 a string
SelectUserWhereText(utbl, text, fault) ==
    IF fault THEN {[err |-> ErrDriver, row |-> Nil]}
    ELSE IF ~IsInteger(text) THEN {[err |-> ErrInvalidInteger, row |-> Nil]}
    ELSE IF ~InRange(text) THEN {[err |-> ErrOutOfRange, row |-> Nil]}
    ELSE SelectUserWhereID(utbl, IntValue(StripZeros(text)), FALSE)

\* ------------------------------------------------------------ Token methods
ErrNoTokenProvided == "no token provided"
ErrInvalidFormat == "invalid token format"
ErrInvalidLength == "invalid token length"
ErrNoMatchingToken == "no matching token found"
ErrTokenExpired == "token expired"
ErrNoMatchingUser == "no matching user found"
ErrNoPlainTextFound == "no plainText found with plainText"
ErrNoUserFound == "no user found with token"

\* the column GetByToken and DeleteToken name in their WHERE clause
LookupColumn == "plainText"

\* func (t *Token) GetByToken(plainText string) (*Token, error)
GetByToken(tbl, plainText, fault) ==
    { IF o.err = Nil THEN [token |-> o.row, err |-> Nil]
      ELSE IF o.err = ErrNoRows THEN [token |-> Nil, err |-> ErrNoPlainTextFound]
      ELSE [token |-> Nil, err |-> o.err]
      : o \in SelectTokenWhere(tbl, LookupColumn, plainText, fault) }

\* func (t *Token) GetUserByToken(token Token) (*User, error)
GetUserByToken(utbl, token, fault) ==
    { IF o.err = Nil THEN [user |-> o.row, err |-> Nil]
      ELSE IF o.err = ErrNoRows THEN [user |-> Nil, err |-> ErrNoUserFound]
      ELSE [user |-> Nil, err |-> o.err]
      : o \in SelectUserWhereID(utbl, token.user_id, fault) }

\* func (t *Token) GetUserWithToken(token string) (*User, error)
GetUserWithToken(utbl, token, fault) ==
    { IF o.err = Nil THEN [user |-> o.row, err |-> Nil]
      ELSE IF o.err = ErrNoRows THEN [user |-> Nil, err |-> ErrNoUserFound]
      ELSE [user |-> Nil, err |-> o.err]
      : o \in SelectUserWhereText(utbl, token, fault) }

\* func (t *Token) VaildateToken(token string) (bool, error)
VaildateToken(utbl, token, fault) ==
    { IF o.err = Nil THEN [ok |-> TRUE, err |-> Nil]
      ELSE IF o.err = ErrNoRows THEN [ok |-> FALSE, err |-> ErrNoUserFound]
      ELSE [ok |-> FALSE, err |-> o.err]
      : o \in SelectUserWhereText(utbl, token, fault) }

\* func (t *Token) DeleteToken(plainText string) error
DeleteToken(tbl, plainText, fault) ==
    DeleteTokenWhere(tbl, LookupColumn, plainText, fault)

\* tokenModel.Expiry.Before(time.Now())
Before(t, u) == t < u

Fail(e) == [user |-> Nil, err |-> e]

\* an authenticator that hands the error of its lookup to the caller
AuthenticateLiteral_Echo(tbl, utbl, clock, tk, f1, f2) ==
    IF Len(tk) # TokenLen THEN {Fail(ErrInvalidLength)}
    ELSE UNION {
        IF g.err # Nil THEN {Fail(g.err)}
        ELSE IF Before(g.token.expiry, clock) THEN {Fail(ErrTokenExpired)}
        ELSE { IF r.err # Nil THEN Fail(r.err)
               ELSE [user |-> r.user, err |-> Nil]
               : r \in GetUserByToken(utbl, g.token, f2) }
        : g \in GetByToken(tbl, tk, f1) }

\* the part of AuthenticationToken after the token literal is cut out
AuthenticateLiteral(tbl, utbl, clock, tk, f1, f2) ==
    IF Len(tk) # TokenLen THEN {Fail(ErrInvalidLength)}
    ELSE UNION {
        IF g.err # Nil THEN {Fail(ErrNoMatchingToken)}
        ELSE IF Before(g.token.expiry, clock) THEN {Fail(ErrTokenExpired)}
        ELSE { IF r.err # Nil THEN Fail(ErrNoMatchingUser)
               ELSE [user |-> r.user, err |-> Nil]
               : r \in GetUserByToken(utbl, g.token, f2) }
        : g \in GetByToken(tbl, tk, f1) }

\* AuthenticationToken without the comparison of the scheme with "Bearer"
AuthenticationToken_AnyScheme(tbl, utbl, clock, header, f1, f2) ==
    LET headerParts == Split(header, Space) IN
    IF header = <<>> THEN {Fail(ErrNoTokenProvided)}
    ELSE IF Len(headerParts) # 2 THEN {Fail(ErrInvalidFormat)}
    ELSE AuthenticateLiteral(tbl, utbl, clock, headerParts[2], f1, f2)

\* func (t *Token) AuthenticationToken(r *http.Request) (*User, error):
\* the results it can return for a header value
AuthenticationToken(tbl, utbl, clock, header, f1, f2) ==
    LET headerParts == Split(header, Space) IN
    IF header = <<>> THEN {Fail(ErrNoTokenProvided)}
    ELSE IF Len(headerParts) # 2 \/ headerParts[1] # Bearer
    THEN {Fail(ErrInvalidFormat)}
    ELSE AuthenticateLiteral(tbl, utbl, clock, headerParts[2], f1, f2)

\* a GenerateToken that encodes with base32.StdEncoding as it is, padding
\* the 26 characters to a multiple of 8
GenerateToken_Padded(clock, userID, ttl, rnd) ==
    IF ~rnd.ok THEN [token |-> Nil, err |-> "rand"]
    ELSE LET padded == Encoded[rnd.bytes] \o <<"=", "=", "=", "=", "=", "=">> IN
         [err |-> Nil,
          token |-> [id |-> 0, user_id |-> userID, email |-> "",
                     token |-> padded,
                     token_hash |-> Sum256(padded),
                     created_at |-> ZeroTime, updated_at |-> ZeroTime,
                     expiry |-> clock + ttl]]

\* func (t *Token) GenerateToken(userID int, ttl time.Duration) (*Token, error)
\* rnd is what rand.Read did: the bytes it delivered, or its failure
GenerateToken(clock, userID, ttl, rnd) ==
    IF ~rnd.ok THEN [token |-> Nil, err |-> "rand"]
    ELSE [err |-> Nil,
          token |-> [id |-> 0, user_id |-> userID, email |-> "",
                     token |-> Encoded[rnd.bytes],
                     token_hash |-> Sum256(Encoded[rnd.bytes]),
                     created_at |-> ZeroTime, updated_at |-> ZeroTime,
                     expiry |-> clock + ttl]]

RandReads == {[ok |-> TRUE, bytes |-> b] : b \in RandomBytes}
               \cup {[ok |-> FALSE, bytes |-> <<>>]}

\* what GenerateToken returns at each time
Generated ==
    [c \in Times |->
        { GenerateToken(c, u, ttl, r).token
          : u \in UserIDs, ttl \in TTLs, r \in {x \in RandReads : x.ok} }]

\* the Token values a caller can pass to InsertToken: what GenerateToken
\* returned at some earlier time, with the Email the caller filled in
TokenArgs ==
    { [t EXCEPT !.email = e] : t \in UNION {Generated[c] : c \in 1..now}, e \in Emails }

\* how a finished InsertToken call that wrote no row is marked in last.val
StoppedBeforeInsert == "stopped before INSERT"

NoCall == [op |-> "none", at |-> 0, arg |-> <<>>, fault |-> <<>>, err |-> Nil, val |-> <<>>]

\* ------------------------------------------------------------- User methods
ErrUniqueViolation == "pq: duplicate key value violates unique constraint"
ErrDeadlineExceeded == "context deadline exceeded"
ErrNoUserWithEmail == "no user found with email"
ErrUserNotFound == "user not found"
ErrInsertAfterAttempts == "failed to insert user after 3 attempts"

\* the columns of the users table that carry a UNIQUE constraint
UserUniqueColumns == {"email"}

\* an INSERT ... ON CONFLICT (email) DO UPDATE: the new values replace the
\* row that holds the email
InsertUserRow_Upsert(utbl, id, user, hashedPassword, fault) ==
    IF fault THEN [err |-> ErrDriver, utbl |-> utbl, nextID |-> id, newID |-> 0]
    ELSE [err |-> Nil, nextID |-> id + 1, newID |-> id,
          utbl |-> {u \in utbl : u.email # user.email}
                   \cup {[id |-> id, email |-> user.email,
                          first_name |-> user.first_name,
                          last_name |-> user.last_name,
                          password |-> hashedPassword,
                          created_at |-> user.created_at,
                          updated_at |-> user.updated_at]}]

\* INSERT INTO users (...) VALUES (...) returning id: the serial id is
\* consumed even when the row is refused
InsertUserRow(utbl, id, user, hashedPassword, fault) ==
    IF fault THEN [err |-> ErrDriver, utbl |-> utbl, nextID |-> id, newID |-> 0]
    ELSE IF \E c \in UserUniqueColumns : \E u \in utbl : u[c] = user[c]
    THEN [err |-> ErrUniqueViolation, utbl |-> utbl, nextID |-> id + 1, newID |-> 0]
    ELSE [err |-> Nil, nextID |-> id + 1, newID |-> id,
          utbl |-> utbl \cup {[id |-> id, email |-> user.email,
                               first_name |-> user.first_name,
                               last_name |-> user.last_name,
                               password |-> hashedPassword,
                               created_at |-> user.created_at,
                               updated_at |-> user.updated_at]}]

\* the retry loop of Insert from attempt number retries + 1 on; elapsed is
\* the time since the context of the call was made, faults says which
\* attempts the datastore fails
RECURSIVE InsertLoop(_, _, _, _, _, _, _)
InsertLoop(utbl, id, user, hashedPassword, retries, elapsed, faults) ==
    LET out == IF elapsed >= dbTimeout
               THEN [err |-> ErrDeadlineExceeded, utbl |-> utbl,
                     nextID |-> id, newID |-> 0]
               ELSE InsertUserRow(utbl, id, user, hashedPassword, faults[retries + 1])
    IN  IF out.err = Nil
        THEN [ret |-> 0, err |-> Nil, wraps |-> Nil, utbl |-> out.utbl,
              nextID |-> out.nextID, newID |-> out.newID,
              attempts |-> retries + 1, slept |-> RetryDelay * retries]
        ELSE IF retries < retryCount - 1
        THEN InsertLoop(out.utbl, out.nextID, user, hashedPassword, retries + 1,
                        elapsed + RetryDelay, faults)
        ELSE [ret |-> 0, err |-> ErrInsertAfterAttempts, wraps |-> out.err,
              utbl |-> out.utbl, nextID |-> out.nextID, newID |-> 0,
              attempts |-> retries + 1, slept |-> RetryDelay * retries]

\* an Insert that sleeps after every failed attempt, the last one included
Insert_WaitAfterLast(utbl, id, user, took, faults) ==
    LET h == GenerateFromPassword(user.password, BcryptCost)
        out == InsertLoop(utbl, id, user, h.hash, 0, took, faults)
    IN  IF h.err # Nil
        THEN [ret |-> 0, err |-> h.err, wraps |-> Nil, utbl |-> utbl, nextID |-> id,
              newID |-> 0, attempts |-> 0, slept |-> 0]
        ELSE IF out.err # Nil
        THEN [out EXCEPT !.slept = RetryDelay * out.attempts]
        ELSE out

\* func (u *User) Insert(user User) (int, error); took is the time the
\* hashing took, counted against the context made before it
Insert(utbl, id, user, took, faults) ==
    LET h == GenerateFromPassword(user.password, BcryptCost) IN
    IF h.err # Nil
    THEN [ret |-> 0, err |-> h.err, wraps |-> Nil, utbl |-> utbl, nextID |-> id,
          newID |-> 0, attempts |-> 0, slept |-> 0]
    ELSE InsertLoop(utbl, id, user, h.hash, 0, took, faults)

\* func (u *User) GetByEmail(email string) (*User, error)
GetByEmail(utbl, email, fault) ==
    IF fault THEN {[user |-> Nil, err |-> ErrDriver]}
    ELSE IF {u \in utbl : u.email = email} = {}
    THEN {[user |-> Nil, err |-> ErrNoUserWithEmail]}
    ELSE {[user |-> u, err |-> Nil] : u \in {x \in utbl : x.email = email}}

\* func (u *User) GetByID(id int) (*User, error)
GetByID(utbl, id, fault) ==
    { IF o.err = Nil THEN [user |-> o.row, err |-> Nil]
      ELSE IF o.err = ErrNoRows THEN [user |-> Nil, err |-> ErrUserNotFound]
      ELSE [user |-> Nil, err |-> o.err]
      : o \in SelectUserWhereID(utbl, id, fault) }

\* an Update that writes the Password field of its argument too
Update_WithPassword(utbl, user, fault) ==
    IF fault THEN [err |-> ErrDriver, utbl |-> utbl]
    ELSE [err |-> Nil,
          utbl |-> { IF u.id = user.id
                     THEN [u EXCEPT !.email = user.email,
                                    !.first_name = user.first_name,
                                    !.last_name = user.last_name,
                                    !.password = PlainText(user.password),
                                    !.updated_at = user.updated_at]
                     ELSE u : u \in utbl }]

\* func (u *User) Update(user User) error: UPDATE users SET email, first_name,
\* last_name, updated_at WHERE id
Update(utbl, user, fault) ==
    IF fault THEN [err |-> ErrDriver, utbl |-> utbl]
    ELSE IF {u \in utbl : u.id = user.id} = {} THEN [err |-> Nil, utbl |-> utbl]
    ELSE IF \E c \in UserUniqueColumns :
                \E u \in utbl : u.id # user.id /\ u[c] = user[c]
    THEN [err |-> ErrUniqueViolation, utbl |-> utbl]
    ELSE [err |-> Nil,
          utbl |-> { IF u.id = user.id
                     THEN [u EXCEPT !.email = user.email,
                                    !.first_name = user.first_name,
                                    !.last_name = user.last_name,
                                    !.updated_at = user.updated_at]
                     ELSE u : u \in utbl }]

\* func (u *User) Delete(id int) error: DELETE FROM users WHERE id; the
\* statement is refused while a token row references the user
Delete(utbl, ttbl, id, fault) ==
    IF fault THEN [err |-> ErrDriver, utbl |-> utbl]
    ELSE IF \E u \in utbl : u.id = id /\ \E t \in ttbl : t.user_id = id
    THEN [err |-> ErrForeignKey, utbl |-> utbl]
    ELSE [err |-> Nil, utbl |-> {u \in utbl : u.id # id}]

\* func (u *User) ResetPassword(password string) error, on the receiver with
\* ID id: update users set password = $1 where id = $2
ResetPassword(utbl, id, password, fault) ==
    IF fault THEN [err |-> Nil, utbl |-> utbl]
    ELSE [err |-> Nil,
          utbl |-> { IF u.id = id THEN [u EXCEPT !.password = PlainText(password)]
                     ELSE u : u \in utbl }]

\* a PasswordMatches that hands every comparison error to its caller
PasswordMatches_ErrOnMismatch(u, password) ==
    LET err == CompareHashAndPassword(u.password, password) IN
    [ok |-> err = Nil, err |-> err]

\* func (u *User) PasswordMatches(password string) (bool, error), on the
\* receiver u
PasswordMatches(u, password) ==
    LET err == CompareHashAndPassword(u.password, password) IN
    IF err # Nil
    THEN IF err = ErrMismatchedHashAndPassword THEN [ok |-> FALSE, err |-> Nil]
         ELSE [ok |-> FALSE, err |-> err]
    ELSE [ok |-> TRUE, err |-> Nil]

\* ------------------------------------------------------------------ actions
Init ==
    /\ users = SeedUsers
    /\ nextUserID = 3
    /\ tokens \in SeedTables
    /\ nextTokenID = 3
    /\ now = 1
    /\ pending = [p \in Procs |-> {}]
    /\ last = NoCall

\* time passes
Tick ==
    /\ now < MaxTime
    /\ now' = now + 1
    /\ UNCHANGED <<users, nextUserID, tokens, nextTokenID, pending, last>>

GenerateTokenCall ==
    \E userID \in UserIDs, ttl \in TTLs, rnd \in RandReads :
        LET out == GenerateToken(now, userID, ttl, rnd) IN
        /\ last' = [op |-> "GenerateToken", at |-> now, arg |-> <<userID, ttl>>,
                    fault |-> <<~rnd.ok>>, err |-> out.err,
                    val |-> IF out.err = Nil THEN <<out.token>> ELSE <<>>]
        /\ UNCHANGED <<users, nextUserID, tokens, nextTokenID, now, pending>>

GetByTokenCall ==
    \E plainText \in TokenValues, fault \in BOOLEAN :
        \E out \in GetByToken(tokens, plainText, fault) :
            /\ last' = [op |-> "GetByToken", at |-> now, arg |-> <<plainText>>,
                        fault |-> <<fault>>, err |-> out.err,
                        val |-> IF out.err = Nil THEN <<out.token>> ELSE <<>>]
            /\ UNCHANGED <<users, nextUserID, tokens, nextTokenID, now, pending>>

DeleteTokenCall ==
    \E plainText \in TokenValues, fault \in BOOLEAN :
        LET out == DeleteToken(tokens, plainText, fault) IN
        /\ tokens' = out.tbl
        /\ last' = [op |-> "DeleteToken", at |-> now, arg |-> <<plainText>>,
                    fault |-> <<fault>>, err |-> out.err, val |-> <<>>]
        /\ UNCHANGED <<users, nextUserID, nextTokenID, now, pending>>

\* an AuthenticationToken call that also purges the rows whose expiry passed
AuthenticationTokenCall_Purge ==
    \E header \in Headers, f1 \in BOOLEAN, f2 \in BOOLEAN :
        \E out \in AuthenticationToken(tokens, users, now, header, f1, f2) :
            /\ last' = [op |-> "AuthenticationToken", at |-> now, arg |-> <<header>>,
                        fault |-> <<f1, f2>>, err |-> out.err,
                        val |-> IF out.err = Nil THEN <<out.user>> ELSE <<>>]
            /\ tokens' = {r \in tokens : ~Before(r.expiry, now)}
            /\ UNCHANGED <<users, nextUserID, nextTokenID, now, pending>>

\* an AuthenticationToken call that also renews the rows it was called over
\* (a sliding expiry)
AuthenticationTokenCall_Slide ==
    \E header \in Headers, f1 \in BOOLEAN, f2 \in BOOLEAN :
        \E out \in AuthenticationToken(tokens, users, now, header, f1, f2) :
            /\ last' = [op |-> "AuthenticationToken", at |-> now, arg |-> <<header>>,
                        fault |-> <<f1, f2>>, err |-> out.err,
                        val |-> IF out.err = Nil THEN <<out.user>> ELSE <<>>]
            /\ tokens' = {[r EXCEPT !.expiry = now + 1] : r \in tokens}
            /\ UNCHANGED <<users, nextUserID, nextTokenID, now, pending>>

AuthenticationTokenCall ==
    \E header \in Headers, f1 \in BOOLEAN, f2 \in BOOLEAN :
        \E out \in AuthenticationToken(tokens, users, now, header, f1, f2) :
            /\ last' = [op |-> "AuthenticationToken", at |-> now, arg |-> <<header>>,
                        fault |-> <<f1, f2>>, err |-> out.err,
                        val |-> IF out.err = Nil THEN <<out.user>> ELSE <<>>]
            /\ UNCHANGED <<users, nextUserID, tokens, nextTokenID, now, pending>>

\* func (t *Token) InsertToken(token Token) error.  The DELETE and the INSERT
\* are two statements outside any transaction: a call that got its DELETE
\* through is pending until its INSERT runs, fails, or the process dies.
InsertTokenCall(p) ==
    IF pending[p] = {}
    THEN \E arg \in TokenArgs, fault \in BOOLEAN :
            LET out == DeleteToken(tokens, arg.token, fault) IN
            /\ tokens' = out.tbl
            /\ pending' = [pending EXCEPT ![p] = IF out.err = Nil THEN {arg} ELSE {}]
            /\ last' = IF out.err = Nil THEN last
                       ELSE [op |-> "InsertToken", at |-> now, arg |-> <<arg>>,
                             fault |-> <<fault, FALSE>>, err |-> out.err,
                             val |-> <<StoppedBeforeInsert>>]
            /\ UNCHANGED <<users, nextUserID, nextTokenID, now>>
    ELSE \E t \in pending[p], fault \in BOOLEAN, dies \in BOOLEAN :
            LET out == InsertTokenRow(tokens, users, nextTokenID, t, now, fault) IN
            /\ tokens' = IF dies THEN tokens ELSE out.tbl
            /\ nextTokenID' = IF dies THEN nextTokenID ELSE out.nextID
            /\ pending' = [pending EXCEPT ![p] = {}]
            /\ last' = [op |-> "InsertToken", at |-> now, arg |-> <<t>>,
                        fault |-> <<FALSE, fault>>,
                        err |-> IF dies THEN "died" ELSE out.err,
                        val |-> IF dies \/ out.err # Nil
                                THEN <<StoppedBeforeInsert>> ELSE <<>>]
            /\ UNCHANGED <<users, nextUserID, now>>

Next ==
    \/ Tick
    \/ GenerateTokenCall
    \/ \E p \in Procs : InsertTokenCall(p)
    \/ GetByTokenCall
    \/ DeleteTokenCall
    \/ AuthenticationTokenCall

Spec == Init /\ [][Next]_vars

\* --------------------------------------------------------- the user methods
\* the User values callers pass to Insert and Update
InsertArgs ==
    { [id |-> 0, email |-> e, first_name |-> "F", last_name |-> "L",
       password |-> pw, created_at |-> 1, updated_at |-> 1]
      : e \in {"a@x", "c@x"}, pw \in Passwords }

UpdateArgs ==
    { [id |-> id, email |-> e, first_name |-> n[1], last_name |-> n[2],
       password |-> pw, created_at |-> ZeroTime, updated_at |-> 2]
      : id \in 1..MaxUserID, e \in {"a@x", "c@x"},
        n \in {<<"G", "M">>}, pw \in {Pw \o <<"x">>} }

\* which attempts of an Insert call the datastore fails: the loop stops at
\* the first attempt that succeeds, so a pattern is the number of leading
\* attempts that fail
FaultPatterns == { [i \in 1..retryCount |-> i <= k] : k \in 0..retryCount }

InsertCall ==
    \E user \in InsertArgs, took \in {0, 1}, faults \in FaultPatterns :
        LET out == Insert(users, nextUserID, user, took, faults) IN
        /\ nextUserID <= MaxUserID
        /\ users' = out.utbl
        /\ nextUserID' = out.nextID
        /\ last' = [op |-> "Insert", at |-> now, arg |-> <<user, took>>,
                    fault |-> faults, err |-> out.err,
                    val |-> <<[ret |-> out.ret, wraps |-> out.wraps,
                               newID |-> out.newID, attempts |-> out.attempts,
                               slept |-> out.slept]>>]
        /\ UNCHANGED <<tokens, nextTokenID, now, pending>>

UpdateCall ==
    \E user \in UpdateArgs, fault \in BOOLEAN :
        LET out == Update(users, user, fault) IN
        /\ users' = out.utbl
        /\ last' = [op |-> "Update", at |-> now, arg |-> <<user>>,
                    fault |-> <<fault>>, err |-> out.err, val |-> <<>>]
        /\ UNCHANGED <<nextUserID, tokens, nextTokenID, now, pending>>

DeleteCall ==
    \E id \in 1..MaxUserID, fault \in BOOLEAN :
        LET out == Delete(users, tokens, id, fault) IN
        /\ users' = out.utbl
        /\ last' = [op |-> "Delete", at |-> now, arg |-> <<id>>,
                    fault |-> <<fault>>, err |-> out.err, val |-> <<>>]
        /\ UNCHANGED <<nextUserID, tokens, nextTokenID, now, pending>>

ResetPasswordCall ==
    \E id \in 1..MaxUserID, password \in {Pw}, fault \in BOOLEAN :
        LET out == ResetPassword(users, id, password, fault) IN
        /\ users' = out.utbl
        /\ last' = [op |-> "ResetPassword", at |-> now, arg |-> <<id, password>>,
                    fault |-> <<fault>>, err |-> out.err, val |-> <<>>]
        /\ UNCHANGED <<nextUserID, tokens, nextTokenID, now, pending>>

\* PasswordMatches on a receiver that GetByEmail returned; of the receiver
\* the method reads the Password field only
PasswordMatchesCall ==
    \E email \in {"a@x", "c@x"}, password \in Candidates :
        \E g \in GetByEmail(users, email, FALSE) :
            /\ g.err = Nil
            /\ last' = [op |-> "PasswordMatches", at |-> now,
                        arg |-> <<[password |-> g.user.password], password>>,
                        fault |-> <<>>,
                        err |-> PasswordMatches(g.user, password).err,
                        val |-> <<PasswordMatches(g.user, password).ok>>]
            /\ UNCHANGED <<users, nextUserID, tokens, nextTokenID, now, pending>>

UserNext ==
    \/ InsertCall
    \/ UpdateCall
    \/ DeleteCall
    \/ ResetPasswordCall
    \/ PasswordMatchesCall

\* the store the user methods start on: no token rows, or one of user 1
UserInit == Init /\ tokens \in {{}, {SeedA}}

UserSpec == UserInit /\ [][UserNext]_vars

\* ------------------------------------------------------------------- claims
\* the header value, token literal and outcome of the last call
IsAuth == last.op = "AuthenticationToken"
NumSpaces(h) == Cardinality({i \in 1..Len(h) : h[i] = Space})
\* exactly two space-separated parts, the first of them "Bearer"
BearerShape(h) ==
    /\ NumSpaces(h) = 1
    /\ Len(h) >= Len(Bearer) + 1
    /\ SubSeq(h, 1, Len(Bearer) + 1) = Bearer \o <<Space>>
Literal(h) == SubSeq(h, Len(Bearer) + 2, Len(h))
MalformedHeader == {ErrNoTokenProvided, ErrInvalidFormat}
NoFault == \A i \in 1..Len(last.fault) : ~last.fault[i]
RowsWith(tk) == {r \in tokens : r.token = tk}
UserExists(id) == \E u \in users : u.id = id

\* C1: AuthenticationToken returns the failure of the first failing check in
\* the order header shape, token length, token lookup, expiry, owning user,
\* and returns a user only when all five checks pass.
C1_FirstFailingCheck ==
    IsAuth =>
        LET h == last.arg[1] IN
        IF ~BearerShape(h) THEN last.err \in MalformedHeader
        ELSE IF Len(Literal(h)) # TokenLen THEN last.err = ErrInvalidLength
        ELSE \E g \in GetByToken(tokens, Literal(h), last.fault[1]) :
                IF g.err # Nil THEN last.err = ErrNoMatchingToken
                ELSE IF ~(g.token.expiry > last.at) THEN last.err = ErrTokenExpired
                ELSE IF last.fault[2] \/ ~UserExists(g.token.user_id)
                THEN last.err = ErrNoMatchingUser
                ELSE last.err = Nil /\ Len(last.val) = 1

\* C1 witness: a well-shaped header with a 26-character token that was never
\* stored passed the first two checks and failed the third.
C1_Witness ==
    /\ IsAuth
    /\ last.arg[1] = Bearer \o <<Space>> \o TokC
    /\ NoFault
    /\ last.err = ErrNoMatchingToken

\* C2: a stored token is accepted only when its expiry is strictly after the
\* current time; with now >= expiry the result is TokenExpired and no user.
C2_ExpiredAtOrAfterExpiry ==
    (IsAuth /\ BearerShape(last.arg[1]) /\ NoFault) =>
        /\ \A r \in RowsWith(Literal(last.arg[1])) :
              last.at >= r.expiry => last.err = ErrTokenExpired /\ last.val = <<>>
        /\ last.err = Nil =>
              \E r \in RowsWith(Literal(last.arg[1])) : r.expiry > last.at

\* C3: after InsertToken(t) succeeds, GetByToken(t.token) returns a record with
\* t's user_id and expiry; the lookup addresses the token column the insert
\* writes, so GetByToken finds every row by the value in that column.
C3_RoundTrip ==
    /\ (last.op = "InsertToken" /\ last.err = Nil) =>
          \A g \in GetByToken(tokens, last.arg[1].token, FALSE) :
              /\ g.err = Nil
              /\ g.token.user_id = last.arg[1].user_id
              /\ g.token.expiry = last.arg[1].expiry
    /\ (last.op = "GetByToken" /\ NoFault /\ RowsWith(last.arg[1]) # {}) =>
          /\ last.err = Nil
          /\ last.val[1] \in RowsWith(last.arg[1])

\* C4: a token generated for an existing user and inserted with InsertToken
\* authenticates as that user at every time before its expiry and fails with
\* TokenExpired at every time after it, while its row and its user exist.
C4_LoginToExpiry ==
    /\ (last.op = "InsertToken" /\ NoFault /\ UserExists(last.arg[1].user_id)) =>
          last.err = Nil
    /\ (IsAuth /\ BearerShape(last.arg[1]) /\ NoFault) =>
          \A r \in RowsWith(Literal(last.arg[1])) :
              UserExists(r.user_id) =>
                  /\ last.at < r.expiry =>
                        last.err = Nil /\ last.val[1].id = r.user_id
                  /\ last.at > r.expiry => last.err = ErrTokenExpired

\* C6: no AuthenticationToken call, whatever it returns, changes the user rows
\* or the token rows; an expired row it has met is still stored afterwards.
C6_AuthenticationReadOnly ==
    [][(last'.op = "AuthenticationToken" /\ last' # last) =>
          /\ users' = users
          /\ tokens' = tokens
          /\ nextTokenID' = nextTokenID]_vars

\* C6 witness: AuthenticationToken was called with the token of a stored row
\* whose expiry has passed, and the row is still stored.
C6_Witness ==
    /\ IsAuth
    /\ BearerShape(last.arg[1])
    /\ NoFault
    /\ \E r \in RowsWith(Literal(last.arg[1])) : r.expiry < last.at

\* C7: DeleteToken(p) returns no error whether or not a row matches, and after
\* it no row with token value p remains, so GetByToken(p) reports not found.
C7_DeleteTokenIdempotent ==
    (last.op = "DeleteToken" /\ NoFault) =>
        /\ last.err = Nil
        /\ RowsWith(last.arg[1]) = {}
        /\ \A g \in GetByToken(tokens, last.arg[1], FALSE) : g.err = ErrNoPlainTextFound

\* C8: InsertToken(t) first deletes the rows whose token value is t.token, so
\* after it no earlier row with that value is left, and after a successful call
\* exactly one row has that value: it carries t's user_id, email, token_hash
\* and expiry, and the server's time as created_at and updated_at.
C8_IsNewRow(r) ==
    /\ r.user_id = last.arg[1].user_id
    /\ r.email = last.arg[1].email
    /\ r.token_hash = last.arg[1].token_hash
    /\ r.expiry = last.arg[1].expiry
    /\ r.created_at = last.at
    /\ r.updated_at = last.at

C8_ExactlyOneRow ==
    (last.op = "InsertToken" /\ NoFault) =>
        /\ \A r \in RowsWith(last.arg[1].token) : C8_IsNewRow(r)
        /\ last.err = Nil => Cardinality(RowsWith(last.arg[1].token)) = 1

\* C9: InsertToken(t) leaves the rows with another token value unchanged, and
\* adds t's row to them: the rows of one user accumulate, one per login.
C9_RowsAccumulate ==
    [][(/\ last'.op = "InsertToken"
        /\ last' # last
        /\ \A i \in 1..Len(last'.fault) : ~last'.fault[i]
        /\ UserExists(last'.arg[1].user_id)) =>
          /\ \A r \in tokens : r.token # last'.arg[1].token => r \in tokens'
          /\ \E r \in tokens' :
                /\ r.token = last'.arg[1].token
                /\ r.user_id = last'.arg[1].user_id
          /\ Cardinality({r \in tokens' : r.user_id = last'.arg[1].user_id})
               = Cardinality({r \in tokens : /\ r.user_id = last'.arg[1].user_id
                                              /\ r.token # last'.arg[1].token}) + 1]_vars

\* C10: an InsertToken(t) call that stops after its DELETE and before its
\* INSERT leaves no row with t.token, and no state of the call has more than
\* one row with t.token.
C10_StoppedCallLeavesNoRow ==
    /\ (/\ last.op = "InsertToken"
        /\ last.val = <<StoppedBeforeInsert>>
        /\ ~last.fault[1]) => RowsWith(last.arg[1].token) = {}
    /\ \A p \in Procs : \A t \in pending[p] : RowsWith(t.token) = {}
    /\ last.op = "InsertToken" => Cardinality(RowsWith(last.arg[1].token)) <= 1

\* ------------------------------------------- tokens and the users they name
\* the strings callers pass to VaildateToken and GetUserWithToken
TokenStrings == {<<"1">>, <<"3">>, TokA, TokB}

VaildateTokenCall ==
    \E token \in TokenStrings, fault \in BOOLEAN :
        \E out \in VaildateToken(users, token, fault) :
            /\ last' = [op |-> "VaildateToken", at |-> now, arg |-> <<token>>,
                        fault |-> <<fault>>, err |-> out.err, val |-> <<out.ok>>]
            /\ UNCHANGED <<users, nextUserID, tokens, nextTokenID, now, pending>>

GetUserWithTokenCall ==
    \E token \in TokenStrings, fault \in BOOLEAN :
        \E out \in GetUserWithToken(users, token, fault) :
            /\ last' = [op |-> "GetUserWithToken", at |-> now, arg |-> <<token>>,
                        fault |-> <<fault>>, err |-> out.err,
                        val |-> IF out.err = Nil THEN <<out.user>> ELSE <<>>]
            /\ UNCHANGED <<users, nextUserID, tokens, nextTokenID, now, pending>>

\* requests that authenticate and validate while users are deleted
OwnerNext ==
    \/ Tick
    \/ AuthenticationTokenCall
    \/ DeleteCall
    \/ VaildateTokenCall
    \/ GetUserWithTokenCall

OwnerSpec == Init /\ [][OwnerNext]_vars

\* ------------------------------------------------- claims on the user store
IsInsert == last.op = "Insert"
\* a step that is a call of op
UserStep(op) ==
    /\ last'.op = op
    /\ (last.op # op \/ last' # last \/ users' # users \/ nextUserID' # nextUserID)
EmailUnique == \A u \in users : \A v \in users : u.email = v.email => u = v

C13_InsertRetries ==
    /\ IsInsert =>
          LET r == last.val[1]
              hashed == GenerateFromPassword(last.arg[1].password, BcryptCost).err = Nil
          IN  /\ r.attempts <= 3
              /\ ~hashed <=> r.attempts = 0
              /\ ~hashed => last.err = ErrPasswordTooLong /\ r.slept = 0
              /\ hashed => r.slept = 2 * (r.attempts - 1)
              /\ last.err = Nil =>
                    /\ r.attempts >= 1
                    /\ ~last.fault[r.attempts]
                    /\ \A i \in 1..(r.attempts - 1) : last.fault[i]
                    /\ Cardinality({u \in users : u.id = r.newID}) = 1
              /\ (hashed /\ last.err # Nil) =>
                    /\ r.attempts = 3
                    /\ last.err = "failed to insert user after 3 attempts"
                    /\ r.wraps \in {ErrDriver, ErrUniqueViolation, ErrDeadlineExceeded}
    /\ (last.op \in {"Update", "Delete"} /\ last.fault[1]) => last.err = ErrDriver

C13_Witness ==
    /\ IsInsert
    /\ last.val[1].attempts = 2
    /\ last.val[1].slept = 2
    /\ last.fault[1]
    /\ last.err = Nil

\* C14: when Insert succeeds, the value it returns is the id the datastore
\* generated: GetByID of the returned value yields the user just inserted.
C14_ReturnsGeneratedID ==
    (IsInsert /\ last.err = Nil) =>
        /\ last.val[1].ret = last.val[1].newID
        /\ \E g \in GetByID(users, last.val[1].ret, FALSE) :
              /\ g.err = Nil
              /\ g.user.email = last.arg[1].email

\* C15: the password field of every stored user row is the output of the
\* hashing operation, never the clear text a caller supplied.
C15_PasswordAlwaysHashed ==
    \A u \in users : u.password.kind = "bcrypt"

\* C16: no two user rows share an email, and an Insert whose email is that of
\* an existing row fails, after 3 attempts when its password hashes, and
\* leaves the users table as it was.
C16_EmailUnique ==
    [][/\ EmailUnique
       /\ EmailUnique'
       /\ (/\ UserStep("Insert")
           /\ \E u \in users : u.email = last'.arg[1].email) =>
             /\ last'.err # Nil
             /\ last'.err # ErrPasswordTooLong => last'.val[1].attempts = 3
             /\ users' = users]_vars

C16_Witness ==
    /\ IsInsert
    /\ NoFault
    /\ last.err = ErrInsertAfterAttempts
    /\ Cardinality({u \in users : u.email = last.arg[1].email}) = 1

\* C17: after Insert succeeded for (email, password), GetByEmail(email)
\* returns a record on which PasswordMatches(password) is true and
\* PasswordMatches(password + "x") is false.
C17_CredentialRoundTrip ==
    (IsInsert /\ last.err = Nil) =>
        \A g \in GetByEmail(users, last.arg[1].email, FALSE) :
            /\ g.err = Nil
            /\ PasswordMatches(g.user, last.arg[1].password) = [ok |-> TRUE, err |-> Nil]
            /\ PasswordMatches(g.user, last.arg[1].password \o <<"x">>)
                 = [ok |-> FALSE, err |-> Nil]

\* C18: PasswordMatches returns (true, nil) when the candidate matches the
\* stored hash, (false, nil) when it does not match, and (false, error) for
\* every other failure of the comparison.
C18_ThreeOutcomes ==
    last.op = "PasswordMatches" =>
        LET cmp == CompareHashAndPassword(last.arg[1].password, last.arg[2]) IN
        /\ cmp = Nil => last.val = <<TRUE>> /\ last.err = Nil
        /\ cmp = ErrMismatchedHashAndPassword => last.val = <<FALSE>> /\ last.err = Nil
        /\ cmp \notin {Nil, ErrMismatchedHashAndPassword} =>
              last.val = <<FALSE>> /\ last.err = cmp

C18_Witness ==
    /\ last.op = "PasswordMatches"
    /\ last.arg[1].password.kind # "bcrypt"
    /\ last.val = <<FALSE>>
    /\ last.err # Nil

\* C19: Update(user) changes only email, first_name, last_name and updated_at
\* of the row with user.id: the password, id and created_at of that row,
\* every other user row and every token row stay as they were.
C19_UpdateFrame ==
    [][UserStep("Update") =>
          /\ tokens' = tokens
          /\ Cardinality(users') = Cardinality(users)
          /\ \A u \in users :
                \E v \in users' :
                    /\ v.id = u.id
                    /\ v.password = u.password
                    /\ v.created_at = u.created_at
                    /\ u.id # last'.arg[1].id => v = u]_vars

C19_Witness ==
    /\ last.op = "Update"
    /\ last.err = Nil
    /\ last.arg[1].password # <<>>
    /\ \E u \in users :
          /\ u.id = last.arg[1].id
          /\ u.email = last.arg[1].email
          /\ u.first_name = last.arg[1].first_name
          /\ u.updated_at = last.arg[1].updated_at
          /\ u.password = HashText(BcryptCost, Pw)
          /\ \E t \in tokens : t.user_id = u.id /\ t.email # u.email

\* C20: Delete of an id that has no row returns an error.
C20_DeleteMissingIsError ==
    [][(/\ UserStep("Delete")
        /\ ~UserExists(last'.arg[1])) => last'.err # Nil]_vars

\* ------------------------------------------- claims on tokens and their users
\* C21: User Delete(id) leaves the token rows with user_id = id stored, and
\* an AuthenticationToken call that follows it with such a token, not yet
\* expired, returns "no matching user found" and no user.
C21_OrphanTokenUserNotFound ==
    [][/\ UserStep("Delete") =>
             \A t \in tokens : t.user_id = last'.arg[1] => t \in tokens'
       /\ (/\ last.op = "Delete"
           /\ last.fault = <<FALSE>>
           /\ last'.op = "AuthenticationToken"
           /\ last'.fault = <<FALSE, FALSE>>
           /\ BearerShape(last'.arg[1])
           /\ \E r \in tokens : /\ r.token = Literal(last'.arg[1])
                                /\ r.user_id = last.arg[1]
                                /\ r.expiry > now) =>
             /\ last'.err = ErrNoMatchingUser
             /\ last'.val = <<>>]_vars

\* the messages AuthenticationToken can return
GenericMessages ==
    {ErrNoTokenProvided, ErrInvalidFormat, ErrInvalidLength,
     ErrNoMatchingToken, ErrTokenExpired, ErrNoMatchingUser}

\* C22: the error of AuthenticationToken is one of a fixed set of messages,
\* and a call whose token lookup fails returns the same message whatever the
\* error of the lookup was: the run with the datastore failing and the run
\* with it healthy return the same message when both fail at the lookup.
C22_GenericMessages ==
    IsAuth =>
        /\ last.err \in GenericMessages \cup {Nil}
        /\ (BearerShape(last.arg[1]) /\ Len(Literal(last.arg[1])) = 26) =>
              LET tk == Literal(last.arg[1])
                  fails(f) == \A g \in GetByToken(tokens, tk, f) : g.err # Nil
              IN  /\ fails(last.fault[1]) => last.err = ErrNoMatchingToken
                  /\ \A f \in BOOLEAN :
                        (fails(f) /\ fails(last.fault[1])) =>
                            \A a \in AuthenticationToken(tokens, users, last.at,
                                                         last.arg[1], f, last.fault[2]) :
                                a.err = last.err

C22_Witness ==
    /\ IsAuth
    /\ BearerShape(last.arg[1])
    /\ Len(Literal(last.arg[1])) = 26
    /\ last.fault[1]
    /\ last.err = ErrNoMatchingToken
    /\ \E g \in GetByToken(tokens, Literal(last.arg[1]), FALSE) :
          g.err \notin {Nil, ErrDriver}

\* C23: a GenerateToken(userID, ttl) call that got its random bytes returns
\* a token with user_id = userID, a token string of 26 characters of the
\* base32 alphabet, which the length check of AuthenticationToken lets
\* through, token_hash the digest of that string and expiry = now + ttl; a
\* call whose random source failed returns an error and no token; no call
\* writes to the datastore.
C23_GenerateToken ==
    [][(/\ last'.op = "GenerateToken"
        /\ (last.op # "GenerateToken" \/ last' # last)) =>
          /\ UNCHANGED <<users, nextUserID, tokens, nextTokenID, pending>>
          /\ last'.fault[1] => last'.err # Nil /\ last'.val = <<>>
          /\ ~last'.fault[1] =>
                /\ last'.err = Nil
                /\ Len(last'.val) = 1
                /\ LET t == last'.val[1] IN
                   /\ t.user_id = last'.arg[1]
                   /\ Len(t.token) = 26
                   /\ \A i \in 1..Len(t.token) :
                         \E k \in 1..Len(StdAlphabet) : t.token[i] = StdAlphabet[k]
                   /\ Fail(ErrInvalidLength)
                        \notin AuthenticateLiteral(tokens, users, now, t.token, FALSE, FALSE)
                   /\ t.token_hash = Sum256(t.token)
                   /\ t.expiry = now + last'.arg[2]]_vars

C23_Witness ==
    /\ last.op = "GenerateToken"
    /\ last.err = Nil
    /\ last.val[1].token = TokC
    /\ last.val[1].user_id = last.arg[1]
    /\ last.val[1].expiry = last.at + last.arg[2]
    /\ last.arg[2] > 0

\* C24: an Insert whose first two attempts the datastore fails and whose
\* third it would accept (the password hashes and no row holds the email)
\* succeeds on the third attempt.
C24_ThirdAttemptUsable ==
    (/\ IsInsert
     /\ last.fault = <<TRUE, TRUE, FALSE>>
     /\ GenerateFromPassword(last.arg[1].password, BcryptCost).err = Nil
     /\ ~(last.err # Nil /\ \E u \in users : u.email = last.arg[1].email)) =>
        /\ last.err = Nil
        /\ last.val[1].attempts = 3

\* C26: ResetPassword returns an error when its statement fails and when no
\* user has the receiver's ID.
C26_ResetPasswordReportsFailure ==
    (/\ last.op = "ResetPassword"
     /\ (last.fault[1] \/ ~UserExists(last.arg[1]))) => last.err # Nil

\* C27: VaildateToken(token) returns true only when a token row with that
\* value is stored, and GetUserWithToken(token) returns the user whose id is
\* the user_id of the stored row with that value.
C27_ValidateByTokenValue ==
    /\ (last.op = "VaildateToken" /\ last.val = <<TRUE>>) =>
          RowsWith(last.arg[1]) # {}
    /\ (last.op = "GetUserWithToken" /\ last.err = Nil) =>
          \E r \in RowsWith(last.arg[1]) : last.val[1].id = r.user_id
    /\ (/\ last.op \in {"VaildateToken", "GetUserWithToken"}
        /\ NoFault
        /\ \E r \in RowsWith(last.arg[1]) : UserExists(r.user_id)) => last.err = Nil

====
